---- MODULE Spec2Model ----
(***************************************************************************)
(* The scan-history screen of the QR scanner application                    *)
(* (src/src/screens/ScanHistoryScreen.js): the in-memory scan list, the     *)
(* Remote Store (Firestore collection 'scans'), the Local Cache Store       *)
(* (AsyncStorage keys 'scanHistory' and 'demoScans'), and the asynchronous  *)
(* handlers fetchScanHistory, getDemoScans, deleteScan and clearAllScans.   *)
(* Every await of a handler is two steps: the store operation taking effect *)
(* (IO...) and the handler resuming with its outcome (Cont...).             *)
(* Time is counted in hours: 86400000 ms = 24.                              *)
(***************************************************************************)
EXTENDS Integers, Sequences, FiniteSets, TLC

VARIABLES
    user,            \* AuthContext user: the uid of the signed-in user
    now,             \* the device clock, Date.now(), in hours
    remote,          \* Remote Store: the documents of collection 'scans'
    nextDoc,         \* number of documents ever added (ids are never reused)
    scanHistory,     \* Local Cache Store key 'scanHistory' (Absent or Stored)
    demoScans,       \* Local Cache Store key 'demoScans' (Absent or Stored)
    scans,           \* useState: the in-memory scan list
    loading,         \* useState: the loading flag
    refreshing,      \* useState: the pull-to-refresh flag
    searchText,      \* useState: the search text
    selectedFilter,  \* useState: all, today, week, month
    filteredScans,   \* useState: the displayed subset
    tzOffset,        \* hours by which local time is ahead of the clock's zero
    dialog,          \* the open option / confirmation dialog (modal)
    load,            \* the invocation of fetchScanHistory, with its position
    dels,            \* the invocations of deleteScan in flight
    clr,             \* the invocation of the clear-all callback in flight
    nRefresh,        \* number of refreshes so far
    nDelete,         \* number of deletes started so far
    nClear,          \* number of clear-alls started so far
    nTick,           \* number of clock advances so far
    screen,          \* the screen shown: login, home, scanner or history
    userToken,       \* Local Cache Store key 'userToken'
    scanner,         \* QRScanner: its useState values, its last render, alerts
    runs,            \* the invocations of handleBarCodeScanned
    nScan            \* number of barcode events accepted so far

vars == <<user, now, remote, nextDoc, scanHistory, demoScans, scans, loading,
          refreshing, searchText, selectedFilter, filteredScans, tzOffset,
          dialog, load, dels, clr, nRefresh, nDelete, nClear, nTick,
          screen, userToken, scanner, runs, nScan>>

(* the navigation, the sign-in marker and the scanner *)
app == <<screen, userToken, scanner, runs, nScan>>
session == <<user, tzOffset, searchText, selectedFilter, app>>
clock == <<now, nTick>>
store == <<remote, nextDoc>>
(* the operations the user has started so far *)
nOps == nRefresh + nDelete + nClear

shown == <<scans, filteredScans>>
flags == <<loading, refreshing>>
counts == <<nRefresh, nDelete, nClear>>

----------------------------------------------------------------------------
(* Bounds of the model *)

MaxDocs == 1
MaxRefresh == 2
MaxDelete == 2
MaxClear == 1
MaxTick == 1
MaxTap == 2
MaxOps == 2
MaxLen == 2
MaxScan == 2

----------------------------------------------------------------------------
(* Values *)

Null == "null"
Undefined == "undefined"
DemoUser == "demo-user"
DocNames == <<"d1", "d2", "d3", "d4", "d5", "d6", "d7", "d8">>
(* the clock at the start, 16:00 on some day, and the step of its advance *)
StartNow == 41 * 24 + 16
TickHours == 24 \div 2

(* strings are sequences of characters where the code looks into them *)
HttpPrefix == <<"h", "t", "t", "p", ":", "/", "/">>
HttpsPrefix == <<"h", "t", "t", "p", "s", ":", "/", "/">>
MailtoPrefix == <<"m", "a", "i", "l", "t", "o", ":">>
TelPrefix == <<"t", "e", "l", ":">>
WiFiPrefix == <<"W", "i", "F", "i", ":">>
ContactWord == <<"C", "o", "n", "t", "a", "c", "t", ":">>
VcardWord == <<"V", "C", "A", "R", "D">>

(* Date.toISOString as done by JSON.stringify, and new Date(string) *)
ToISOString(d) == <<"iso", d>>
NewDate(s) == s[2]

(* JSON.stringify of a record list: every Date becomes its ISO string *)
JSONStringify(list) ==
    [i \in DOMAIN list |-> [list[i] EXCEPT !.timestamp = ToISOString(@)]]

(* JSON.parse followed by .map(scan => ({...scan, timestamp: new Date(..)})) *)
ParseScans(json) ==
    [i \in DOMAIN json |-> [json[i] EXCEPT !.timestamp = NewDate(@)]]

(* list.filter(s => s.id !== id) *)
RemoveId(list, id) == SelectSeq(list, LAMBDA s : s.id # id)

Ids(list) == {list[i].id : i \in DOMAIN list}

(* a value of the Local Cache Store: getItem gives null for an absent key,
   else the stored string *)
Absent == [present |-> FALSE, items |-> <<>>]
Stored(json) == [present |-> TRUE, items |-> json]

----------------------------------------------------------------------------
(* Remote Store *)

(* addDoc(collection(db, 'scans'), scanData): the stored document *)
NewDoc(n, uid, data, t) ==
    [id |-> DocNames[n], userId |-> uid, qrData |-> data, timestamp |-> t]

(* documents that exist before the session: one of u1, one of u2 *)
InitialRemote ==
    { NewDoc(1, "u1", HttpsPrefix \o <<"e", "x", "p", "o">>, StartNow - 30),
      NewDoc(2, "u2", TelPrefix \o <<"5", "5", "5">>, StartNow - 20) }

(* the first document of a set in the order of orderBy('timestamp', 'desc');
   documents of equal timestamp are ordered by document id *)
FirstDesc(S) ==
    CHOOSE d \in S : \A e \in S :
        \/ d.timestamp > e.timestamp
        \/ d.timestamp = e.timestamp /\ \A i, j \in DOMAIN DocNames :
               (DocNames[i] = d.id /\ DocNames[j] = e.id) => i >= j

RECURSIVE OrderDesc(_)
OrderDesc(S) ==
    IF S = {} THEN <<>>
    ELSE LET d == FirstDesc(S) IN <<d>> \o OrderDesc(S \ {d})

(* query(collection, where('userId', '==', uid), orderBy('timestamp', 'desc'))
   and the forEach that builds scanData from the snapshot *)
QueryScans(uid) == OrderDesc({d \in remote : d.userId = uid})

----------------------------------------------------------------------------
(* Demo data *)

(* the default demo data built by getDemoScans at clock value t; the
   payloads are cut short after their first words *)
DefaultDemoScans(t) ==
    << [id |-> "1", userId |-> Undefined,
        qrData |-> HttpsPrefix \o <<"e", "x", "p", "o">>,
        timestamp |-> t - 24],
       [id |-> "2", userId |-> Undefined,
        qrData |-> <<"H", "e", "l", "l", "o">>,
        timestamp |-> t - 48],
       [id |-> "3", userId |-> Undefined,
        qrData |-> HttpsPrefix \o <<"r", "n">>,
        timestamp |-> t - 72],
       [id |-> "4", userId |-> Undefined,
        qrData |-> ContactWord \o <<" ", "J", "D">>,
        timestamp |-> t - 96],
       [id |-> "5", userId |-> Undefined,
        qrData |-> WiFiPrefix \o <<"T", ":", "W", "P", "A">>,
        timestamp |-> t - 120] >>

IsDemo(u) == u = Null \/ u = DemoUser

----------------------------------------------------------------------------
(* Filter/Search Engine *)

(* String.toLowerCase over the characters of the model; qrData and the
   search text are sequences of characters where they are searched *)
LowerChar(c) ==
    CASE c = "A" -> "a"
      [] c = "B" -> "b"
      [] c = "F" -> "f"
      [] c = "W" -> "w"
      [] OTHER -> c

(* ToLowerCase doing nothing: a case-sensitive search *)
ToLowerCaseKeep(s) == s

ToLowerCase(s) == [i \in DOMAIN s |-> LowerChar(s[i])]

(* String.includes *)
Includes(s, t) ==
    \E i \in 0 .. (Len(s) - Len(t)) : SubSeq(s, i + 1, i + Len(t)) = t

(* LocalMidnight taken at the clock's zero instead of in local time *)
LocalMidnightUTC(t, tz) == (t \div 24) * 24

(* new Date(now.getFullYear(), now.getMonth(), now.getDate()): local midnight *)
LocalMidnight(t, tz) == ((t + tz) \div 24) * 24 - tz

(* the switch of filterScans: whether it sets a cutoffDate, and which *)
HasCutoff(filter) == filter \in {"today", "week", "month"}

(* CutoffDate with a week of 3 days *)
CutoffDateShortWeek(filter, t, tz) ==
    CASE filter = "today" -> LocalMidnight(t, tz)
      [] filter = "week" -> t - 3 * 24
      [] filter = "month" -> t - 30 * 24

CutoffDate(filter, t, tz) ==
    CASE filter = "today" -> LocalMidnight(t, tz)
      [] filter = "week" -> t - 7 * 24
      [] filter = "month" -> t - 30 * 24

(* filterScans: the value it passes to setFilteredScans *)
filterScans(list, filter, text, t, tz) ==
    LET byTime == IF filter # "all" /\ HasCutoff(filter)
                  THEN SelectSeq(list, LAMBDA scan :
                           scan.timestamp >= CutoffDate(filter, t, tz))
                  ELSE list
    IN  IF text # <<>>
        THEN SelectSeq(byTime, LAMBDA scan :
                 Includes(ToLowerCase(scan.qrData), ToLowerCase(text)))
        ELSE byTime

(* String.startsWith *)
StartsWith(s, p) == Len(s) >= Len(p) /\ SubSeq(s, 1, Len(p)) = p

(* getQRType with the contact rule placed first *)
getQRTypeContactFirst(data) ==
    IF Includes(data, ContactWord) \/ Includes(data, VcardWord)
    THEN [type |-> "contact", color |-> "#FF5722"]
    ELSE IF StartsWith(data, HttpPrefix) \/ StartsWith(data, HttpsPrefix)
    THEN [type |-> "url", color |-> "#2196F3"]
    ELSE IF StartsWith(data, MailtoPrefix)
    THEN [type |-> "email", color |-> "#FF9800"]
    ELSE IF StartsWith(data, TelPrefix)
    THEN [type |-> "phone", color |-> "#4CAF50"]
    ELSE IF StartsWith(data, WiFiPrefix)
    THEN [type |-> "wifi", color |-> "#9C27B0"]
    ELSE [type |-> "text", color |-> "#607D8B"]

(* getQRType: the kind and the colour of a payload *)
getQRType(data) ==
    IF StartsWith(data, HttpPrefix) \/ StartsWith(data, HttpsPrefix)
    THEN [type |-> "url", color |-> "#2196F3"]
    ELSE IF StartsWith(data, MailtoPrefix)
    THEN [type |-> "email", color |-> "#FF9800"]
    ELSE IF StartsWith(data, TelPrefix)
    THEN [type |-> "phone", color |-> "#4CAF50"]
    ELSE IF StartsWith(data, WiFiPrefix)
    THEN [type |-> "wifi", color |-> "#9C27B0"]
    ELSE IF Includes(data, ContactWord) \/ Includes(data, VcardWord)
    THEN [type |-> "contact", color |-> "#FF5722"]
    ELSE [type |-> "text", color |-> "#607D8B"]

(* setScans, and the effect on [searchText, scans, selectedFilter] that the
   re-render runs *)
SetScans(list) ==
    /\ scans' = list
    /\ filteredScans' = filterScans(list, selectedFilter, searchText, now, tzOffset)

----------------------------------------------------------------------------
(* Initial state: the screen has just been mounted for the signed-in user;
   the mount effect has called fetchScanHistory, which has run up to its
   first await *)

IdleOp == [pc |-> "idle", alert |-> "none"]
IdleRun == [pc |-> "idle", data |-> <<>>, uid |-> Null, id |-> "none"]

(* QRScanner before its first scan: the useState values, shown being the
   value of scanned in the last committed render *)
NewScanner ==
    [hasPermission |-> Null, scanned |-> FALSE, loading |-> FALSE,
     shown |-> FALSE, alerts |-> <<>>]

(* the history screen is shown, the scanner is not mounted *)
OnHistory ==
    /\ screen = "history"
    /\ userToken = user
    /\ scanner = NewScanner
    /\ runs = [r \in 1 .. MaxScan |-> IdleRun]
    /\ nScan = 0
IdleClear == [pc |-> "idle", alert |-> "none", had |-> {}]

(* fetchScanHistory run up to its first await.  prev is the way the load
   before it ended and afterClear whether a clear-all had reported success
   when it started: they are kept for the properties *)
StartedLoad(u, prev, afterClear) ==
    [pc |-> IF IsDemo(u) THEN "demoGet" ELSE "query",
     res |-> <<>>, got |-> Absent, queried |-> FALSE, path |-> "none",
     alert |-> "none", prev |-> prev, afterClear |-> afterClear]

Init ==
    /\ user \in {DemoUser, "u1"}
    /\ now = StartNow
    /\ remote = InitialRemote
    /\ nextDoc = Cardinality(InitialRemote)
    /\ scanHistory = Absent
    /\ demoScans = Absent
    /\ scans = <<>>
    /\ loading = TRUE
    /\ refreshing = FALSE
    /\ searchText = <<>>
    /\ selectedFilter = "all"
    /\ filteredScans = <<>>
    /\ tzOffset = 0
    /\ dialog = [kind |-> "none"]
    /\ load = StartedLoad(user, "none", FALSE)
    /\ dels = [d \in 1 .. MaxDelete |-> IdleOp]
    /\ clr = IdleClear
    /\ nRefresh = 0
    /\ nDelete = 0
    /\ nClear = 0
    /\ nTick = 0
    /\ OnHistory

----------------------------------------------------------------------------
(* Environment *)

NoDialog == [kind |-> "none"]

(* no handler of the screen is between its start and its return and no
   dialog is open *)
AtRest ==
    /\ load.pc = "done"
    /\ \A d \in DOMAIN dels : dels[d].pc \in {"idle", "done"}
    /\ clr.pc \in {"idle", "done"}
    /\ dialog.kind = "none"

(* the clock advances.  It is counted in steps of half a day, and no store
   operation stays in flight that long: time passes while the screen rests *)
Tick ==
    /\ AtRest
    /\ nTick < MaxTick
    /\ nTick' = nTick + 1
    /\ now' = now + TickHours
    /\ UNCHANGED <<session, store, scanHistory, demoScans, shown, flags, dialog,
                   load, dels, clr, counts>>

(* saveScanToDatabase: a scan saved by the scanner arrives in the Remote Store
   with the server's timestamp.  The scanner belongs to the Home screen, so a
   save comes between the operations of the history screen *)
AddDoc ==
    /\ AtRest
    /\ nextDoc < Cardinality(InitialRemote) + MaxDocs
    /\ nextDoc' = nextDoc + 1
    /\ remote' = remote \cup
           {NewDoc(nextDoc + 1, IF user = Null THEN DemoUser ELSE user,
                   WiFiPrefix \o <<"T">>, now)}
    /\ UNCHANGED <<session, clock, scanHistory, demoScans, shown, flags, dialog,
                   load, dels, clr, counts>>

----------------------------------------------------------------------------
(* fetchScanHistory.  A store operation that fails changes nothing, so the
   failure and the resumption of the handler in its catch are one step. *)

(* the finally block, and onRefresh resuming after its await *)
FinishLoad(p, a) ==
    /\ load' = [load EXCEPT !.pc = "done", !.path = p, !.alert = a,
                            !.got = Absent]
    /\ loading' = FALSE
    /\ refreshing' = FALSE

(* onRefresh: offered by the header button and the list once the loading view
   is gone; a modal dialog blocks it *)
onRefresh ==
    /\ screen = "history"
    /\ ~loading
    /\ dialog.kind = "none"
    /\ nRefresh < MaxRefresh
    /\ nOps < MaxOps
    /\ nRefresh' = nRefresh + 1
    /\ refreshing' = TRUE
    /\ loading' = TRUE
    /\ load' = StartedLoad(user, load.path, clr.alert = "All scans cleared")
    /\ UNCHANGED <<session, clock, store, scanHistory, demoScans, shown, dialog,
                   dels, clr, nDelete, nClear>>

(* getDocs(q) resolves with the matching documents *)
IOQuery ==
    /\ load.pc = "query"
    /\ load' = [load EXCEPT !.pc = "queryOk", !.res = QueryScans(user),
                            !.queried = TRUE]
    /\ UNCHANGED <<session, clock, store, scanHistory, demoScans, shown, flags,
                   dialog, dels, clr, counts>>

(* getDocs(q) rejects; catch: getItem('scanHistory') is issued *)
QueryFails ==
    /\ load.pc = "query"
    /\ load' = [load EXCEPT !.pc = "backupGet"]
    /\ UNCHANGED <<session, clock, store, scanHistory, demoScans, shown, flags,
                   dialog, dels, clr, counts>>

(* setScans(scanData), then setItem('scanHistory', ...) is issued *)
ContQuery ==
    /\ load.pc = "queryOk"
    /\ SetScans(load.res)
    /\ load' = [load EXCEPT !.pc = "mirror"]
    /\ UNCHANGED <<session, clock, store, scanHistory, demoScans, flags, dialog,
                   dels, clr, counts>>

(* AsyncStorage.setItem('scanHistory', JSON.stringify(scanData)) *)
IOMirror ==
    /\ load.pc = "mirror"
    /\ scanHistory' = Stored(JSONStringify(load.res))
    /\ load' = [load EXCEPT !.pc = "mirrorOk"]
    /\ UNCHANGED <<session, clock, store, demoScans, shown, flags, dialog, dels,
                   clr, counts>>

(* the setItem rejects: it is caught by the same catch as a failed query,
   and getItem('scanHistory') is issued *)
MirrorFails ==
    /\ load.pc = "mirror"
    /\ load' = [load EXCEPT !.pc = "backupGet"]
    /\ UNCHANGED <<session, clock, store, scanHistory, demoScans, shown, flags,
                   dialog, dels, clr, counts>>

(* the try block ends normally *)
ContMirror ==
    /\ load.pc = "mirrorOk"
    /\ FinishLoad("remote", "none")
    /\ UNCHANGED <<session, clock, store, scanHistory, demoScans, shown, dialog,
                   dels, clr, counts>>

(* AsyncStorage.getItem('scanHistory') *)
IOBackupGet ==
    /\ load.pc = "backupGet"
    /\ load' = [load EXCEPT !.pc = "backupOk", !.got = scanHistory]
    /\ UNCHANGED <<session, clock, store, scanHistory, demoScans, shown, flags,
                   dialog, dels, clr, counts>>

(* if (localScans) setScans(parsed) *)
ContBackup ==
    /\ load.pc = "backupOk"
    /\ IF load.got.present
       THEN /\ SetScans(ParseScans(load.got.items))
            /\ FinishLoad("backup", "none")
       ELSE /\ UNCHANGED shown
            /\ FinishLoad("kept", "none")
    /\ UNCHANGED <<session, clock, store, scanHistory, demoScans, dialog, dels,
                   clr, counts>>

(* BackupFails without the inner catch: the finally block runs, the rejection
   leaves fetchScanHistory and onRefresh does not reach setRefreshing(false) *)
BackupFailsEscapes ==
    /\ load.pc = "backupGet"
    /\ load' = [load EXCEPT !.pc = "done", !.path = "error", !.got = Absent]
    /\ loading' = FALSE
    /\ UNCHANGED <<session, clock, store, scanHistory, demoScans, shown,
                   refreshing, dialog, dels, clr, counts>>

(* the getItem rejects; catch (localError):
   Alert.alert('Error', 'Failed to load scan history') *)
BackupFails ==
    /\ load.pc = "backupGet"
    /\ FinishLoad("error", "Failed to load scan history")
    /\ UNCHANGED <<session, clock, store, scanHistory, demoScans, shown, dialog,
                   dels, clr, counts>>

----------------------------------------------------------------------------
(* getDemoScans, called by fetchScanHistory for the demo identity *)

(* AsyncStorage.getItem('demoScans') *)
IODemoGet ==
    /\ load.pc = "demoGet"
    /\ load' = [load EXCEPT !.pc = "demoGetOk", !.got = demoScans]
    /\ UNCHANGED <<session, clock, store, scanHistory, demoScans, shown, flags,
                   dialog, dels, clr, counts>>

(* ContDemoCached with the saved demo scans ignored: the default data is
   built anew and returned *)
ContDemoCachedFresh ==
    /\ load.pc = "demoGetOk"
    /\ load.got.present
    /\ SetScans(DefaultDemoScans(now))
    /\ load' = [load EXCEPT !.pc = "done", !.path = "demoCache",
                            !.res = DefaultDemoScans(now), !.got = Absent]
    /\ loading' = FALSE
    /\ refreshing' = FALSE
    /\ UNCHANGED <<session, clock, store, scanHistory, demoScans, dialog, dels,
                   clr, counts>>

(* if (savedDemoScans) return the parsed list: setScans, setLoading(false) *)
ContDemoCached ==
    /\ load.pc = "demoGetOk"
    /\ load.got.present
    /\ SetScans(ParseScans(load.got.items))
    /\ load' = [load EXCEPT !.pc = "done", !.path = "demoCache",
                            !.res = ParseScans(load.got.items), !.got = Absent]
    /\ loading' = FALSE
    /\ refreshing' = FALSE
    /\ UNCHANGED <<session, clock, store, scanHistory, demoScans, dialog, dels,
                   clr, counts>>

(* the default demo data is built from Date.now() and
   setItem('demoScans', ...) is issued *)
SeedDemo ==
    load' = [load EXCEPT !.pc = "demoSet", !.res = DefaultDemoScans(now)]

(* no saved demo scans *)
ContDemoSeed ==
    /\ load.pc = "demoGetOk"
    /\ ~load.got.present
    /\ SeedDemo
    /\ UNCHANGED <<session, clock, store, scanHistory, demoScans, shown, flags,
                   dialog, dels, clr, counts>>

(* the getItem rejects: the error is logged and the default data is built *)
DemoGetFails ==
    /\ load.pc = "demoGet"
    /\ SeedDemo
    /\ UNCHANGED <<session, clock, store, scanHistory, demoScans, shown, flags,
                   dialog, dels, clr, counts>>

(* AsyncStorage.setItem('demoScans', JSON.stringify(demoScans)) *)
IODemoSet ==
    /\ load.pc = "demoSet"
    /\ demoScans' = Stored(JSONStringify(load.res))
    /\ load' = [load EXCEPT !.pc = "demoSetOk"]
    /\ UNCHANGED <<session, clock, store, scanHistory, shown, flags, dialog,
                   dels, clr, counts>>

(* return demoScans: setScans, setLoading(false) *)
ReturnSeed(p) ==
    /\ SetScans(load.res)
    /\ load' = [load EXCEPT !.pc = "done", !.path = p, !.got = Absent]
    /\ loading' = FALSE
    /\ refreshing' = FALSE

ContDemoSet ==
    /\ load.pc = "demoSetOk"
    /\ ReturnSeed("demoSeed")
    /\ UNCHANGED <<session, clock, store, scanHistory, demoScans, dialog, dels,
                   clr, counts>>

(* the setItem rejects: the error is logged, the default data is returned *)
DemoSetFails ==
    /\ load.pc = "demoSet"
    /\ ReturnSeed("demoSeedUnsaved")
    /\ UNCHANGED <<session, clock, store, scanHistory, demoScans, dialog, dels,
                   clr, counts>>

LoadStep ==
    \/ onRefresh
    \/ IOQuery
    \/ QueryFails
    \/ ContQuery
    \/ IOMirror
    \/ MirrorFails
    \/ ContMirror
    \/ IOBackupGet
    \/ ContBackup
    \/ BackupFails
    \/ IODemoGet
    \/ ContDemoCached
    \/ ContDemoSeed
    \/ DemoGetFails
    \/ IODemoSet
    \/ ContDemoSet
    \/ DemoSetFails

(* the steps of a fetchScanHistory in flight: its store operations settling
   and the handler resuming *)
LoadRun ==
    \/ IOQuery
    \/ QueryFails
    \/ ContQuery
    \/ IOMirror
    \/ MirrorFails
    \/ ContMirror
    \/ IOBackupGet
    \/ ContBackup
    \/ BackupFails
    \/ IODemoGet
    \/ ContDemoCached
    \/ ContDemoSeed
    \/ DemoGetFails
    \/ IODemoSet
    \/ ContDemoSet
    \/ DemoSetFails

----------------------------------------------------------------------------
(* The option dialog of a list item, and deleteScan *)

(* handleScanPress(item): Alert.alert with the Delete button, whose callback
   is the deleteScan of this render and so holds this render's scans, and
   with the Open URL button when getQRType gives url.  Presses are counted
   within the bounds of deleteScan: the dialog is opened while one more
   delete can be started *)
handleScanPress(i) ==
    /\ screen = "history"
    /\ ~loading
    /\ dialog.kind = "none"
    /\ nDelete < MaxDelete
    /\ nOps < MaxOps
    /\ i \in DOMAIN filteredScans
    /\ dialog' = [kind |-> "scan", scan |-> filteredScans[i], scans |-> scans,
                  qrType |-> getQRType(filteredScans[i].qrData)]
    /\ UNCHANGED <<session, clock, store, scanHistory, demoScans, shown, flags,
                   load, dels, clr, counts>>

(* Close, Cancel, Copy, Share: the dialog goes away *)
CloseDialog ==
    /\ dialog.kind # "none"
    /\ dialog' = NoDialog
    /\ UNCHANGED <<session, clock, store, scanHistory, demoScans, shown, flags,
                   load, dels, clr, counts>>

(* the Delete button: deleteScan(scan) runs up to its await, which is
   deleteDoc for a signed-in user and setItem('demoScans', ...) otherwise *)
deleteScan ==
    /\ dialog.kind = "scan"
    /\ nDelete < MaxDelete
    /\ nOps < MaxOps
    /\ nDelete' = nDelete + 1
    /\ dialog' = NoDialog
    /\ dels' = [dels EXCEPT ![nDelete + 1] =
           IF user # Null /\ user # DemoUser
           THEN [pc |-> "deleteDoc", alert |-> "none", scan |-> dialog.scan,
                 scans |-> dialog.scans, val |-> <<>>]
           ELSE [pc |-> "demoSet", alert |-> "none", scan |-> dialog.scan,
                 scans |-> dialog.scans,
                 val |-> JSONStringify(RemoveId(dialog.scans, dialog.scan.id))]]
    /\ UNCHANGED <<session, clock, store, scanHistory, demoScans, shown, flags,
                   load, clr, nRefresh, nClear>>

(* a deleteScan that has returned: the notice it showed, for which record *)
Settled(del, a) ==
    [pc |-> "done", alert |-> a, scan |-> del.scan, scans |-> <<>>,
     val |-> <<>>]

(* deleteDoc(doc(db, 'scans', scan.id)) *)
IODeleteDoc(d) ==
    /\ dels[d].pc = "deleteDoc"
    /\ remote' = {x \in remote : x.id # dels[d].scan.id}
    /\ dels' = [dels EXCEPT ![d].pc = "stored"]
    /\ UNCHANGED <<session, clock, nextDoc, scanHistory, demoScans, shown, flags,
                   dialog, load, clr, counts>>

(* AsyncStorage.setItem('demoScans', JSON.stringify(updatedDemoScans)) *)
IODeleteDemo(d) ==
    /\ dels[d].pc = "demoSet"
    /\ demoScans' = Stored(dels[d].val)
    /\ dels' = [dels EXCEPT ![d].pc = "stored"]
    /\ UNCHANGED <<session, clock, store, scanHistory, shown, flags, dialog,
                   load, clr, counts>>

(* setScans(scans.filter(s => s.id !== scan.id)) and
   Alert.alert('Success', 'Scan deleted successfully') *)
ContDelete(d) ==
    /\ dels[d].pc = "stored"
    /\ SetScans(RemoveId(dels[d].scans, dels[d].scan.id))
    /\ dels' = [dels EXCEPT ![d] = Settled(dels[d], "Scan deleted successfully")]
    /\ UNCHANGED <<session, clock, store, scanHistory, demoScans, flags, dialog,
                   load, clr, counts>>

(* DeleteFails with the list updated before the store operation is awaited *)
DeleteFailsOptimistic(d) ==
    /\ dels[d].pc \in {"deleteDoc", "demoSet"}
    /\ SetScans(RemoveId(dels[d].scans, dels[d].scan.id))
    /\ dels' = [dels EXCEPT ![d] = Settled(dels[d], "Failed to delete scan")]
    /\ UNCHANGED <<session, clock, store, scanHistory, demoScans, flags, dialog,
                   load, clr, counts>>

(* the store operation rejects; catch:
   Alert.alert('Error', 'Failed to delete scan') *)
DeleteFails(d) ==
    /\ dels[d].pc \in {"deleteDoc", "demoSet"}
    /\ dels' = [dels EXCEPT ![d] = Settled(dels[d], "Failed to delete scan")]
    /\ UNCHANGED <<session, clock, store, scanHistory, demoScans, shown, flags,
                   dialog, load, clr, counts>>

DeleteStep ==
    \/ \E i \in 1 .. MaxTap : handleScanPress(i)
    \/ CloseDialog
    \/ deleteScan
    \/ \E d \in DOMAIN dels : IODeleteDoc(d)
    \/ \E d \in DOMAIN dels : IODeleteDemo(d)
    \/ \E d \in DOMAIN dels : ContDelete(d)
    \/ \E d \in DOMAIN dels : DeleteFails(d)

----------------------------------------------------------------------------
(* clearAllScans *)

(* the Clear All button, shown while scans.length > 0: the confirmation,
   opened while one more clear-all can be started *)
clearAllScans ==
    /\ screen = "history"
    /\ ~loading
    /\ dialog.kind = "none"
    /\ Len(scans) > 0
    /\ nClear < MaxClear
    /\ nOps < MaxOps
    /\ dialog' = [kind |-> "clear"]
    /\ UNCHANGED <<session, clock, store, scanHistory, demoScans, shown, flags,
                   load, dels, clr, counts>>

(* the confirmed callback runs up to its await: removeItem('demoScans') is
   issued, whoever the user is *)
ConfirmClear ==
    /\ dialog.kind = "clear"
    /\ clr.pc \in {"idle", "done"}
    /\ nClear < MaxClear
    /\ nOps < MaxOps
    /\ nClear' = nClear + 1
    /\ dialog' = NoDialog
    /\ clr' = [pc |-> "removeItem", alert |-> "none", had |-> {}]
    /\ UNCHANGED <<session, clock, store, scanHistory, demoScans, shown, flags,
                   load, dels, nRefresh, nDelete>>

(* IORemoveDemo with the batch delete of the user's documents that the
   comment in clearAllScans says a real application would need *)
IORemoveDemoAndDocs ==
    /\ clr.pc = "removeItem"
    /\ demoScans' = Absent
    /\ remote' = {x \in remote : x.userId # user}
    /\ clr' = [clr EXCEPT !.pc = "removed"]
    /\ UNCHANGED <<session, clock, nextDoc, scanHistory, shown, flags, dialog,
                   load, dels, counts>>

(* AsyncStorage.removeItem('demoScans') *)
IORemoveDemo ==
    /\ clr.pc = "removeItem"
    /\ demoScans' = Absent
    /\ clr' = [clr EXCEPT !.pc = "removed"]
    /\ UNCHANGED <<session, clock, store, scanHistory, shown, flags, dialog,
                   load, dels, counts>>

(* setScans([]) and Alert.alert('Success', 'All scans cleared'); had keeps
   the ids of the records the list lost, for the properties *)
ContClear ==
    /\ clr.pc = "removed"
    /\ SetScans(<<>>)
    /\ clr' = [pc |-> "done", alert |-> "All scans cleared", had |-> Ids(scans)]
    /\ UNCHANGED <<session, clock, store, scanHistory, demoScans, flags, dialog,
                   load, dels, counts>>

(* the removeItem rejects; catch:
   Alert.alert('Error', 'Failed to clear scans') *)
ClearFails ==
    /\ clr.pc = "removeItem"
    /\ clr' = [pc |-> "done", alert |-> "Failed to clear scans", had |-> {}]
    /\ UNCHANGED <<session, clock, store, scanHistory, demoScans, shown, flags,
                   dialog, load, dels, counts>>

ClearStep ==
    \/ clearAllScans
    \/ ConfirmClear
    \/ IORemoveDemo
    \/ ContClear
    \/ ClearFails

Next ==
    \/ Tick
    \/ AddDoc
    \/ LoadStep
    \/ DeleteStep
    \/ ClearStep

Spec == Init /\ [][Next]_vars

----------------------------------------------------------------------------
(* Navigation (App.js, HomeScreen) and sign-in (AuthContext).  The history
   screen is left when it rests; its state is discarded with it. *)

(* the useState values of a history screen that is not mounted *)
HistoryGone ==
    /\ SetScans(<<>>)
    /\ loading' = TRUE
    /\ refreshing' = FALSE
    /\ dialog' = NoDialog
    /\ load' = [StartedLoad(Null, "none", FALSE) EXCEPT !.pc = "done"]
    /\ dels' = [d \in 1 .. MaxDelete |-> IdleOp]
    /\ clr' = IdleClear

(* the header's back button: the stack pops ScanHistory and Home is shown *)
goBack ==
    /\ screen = "history"
    /\ AtRest
    /\ screen' = "home"
    /\ HistoryGone
    /\ searchText' = <<>>
    /\ selectedFilter' = "all"
    /\ UNCHANGED <<user, tzOffset, userToken, scanner, runs, nScan, clock,
                   store, scanHistory, demoScans, counts>>

(* navigation.navigate('ScanHistory'): the screen is mounted with its initial
   useState values and the mount effect calls fetchScanHistory, which runs up
   to its first await *)
openHistory ==
    /\ screen = "home"
    /\ screen' = "history"
    /\ scans' = <<>>
    /\ filteredScans' = <<>>
    /\ loading' = TRUE
    /\ refreshing' = FALSE
    /\ dialog' = NoDialog
    /\ load' = StartedLoad(user, "none", FALSE)
    /\ dels' = [d \in 1 .. MaxDelete |-> IdleOp]
    /\ clr' = IdleClear
    /\ searchText' = <<>>
    /\ selectedFilter' = "all"
    /\ UNCHANGED <<user, tzOffset, userToken, scanner, runs, nScan, clock,
                   store, scanHistory, demoScans, counts>>

(* handleLogout confirmed, logout: signOut(auth), removeItem('userToken'),
   setUser(null); the navigator shows Login.  No other key of the Local Cache
   Store is touched *)
logout ==
    /\ screen = "home"
    /\ user' = Null
    /\ userToken' = Null
    /\ screen' = "login"
    /\ UNCHANGED <<tzOffset, searchText, selectedFilter, scanner, runs, nScan,
                   clock, store, scanHistory, demoScans, shown, flags, dialog,
                   load, dels, clr, counts>>

(* the accounts of the authentication provider *)
Accounts == {"u1", "u2"}

(* login(email, password) with the credentials of account u:
   signInWithEmailAndPassword resolves, setItem('userToken', uid), and the
   onAuthStateChanged listener sets the user; the navigator shows Home *)
login(u) ==
    /\ screen = "login"
    /\ u \in Accounts
    /\ user' = u
    /\ userToken' = u
    /\ screen' = "home"
    /\ UNCHANGED <<tzOffset, searchText, selectedFilter, scanner, runs, nScan,
                   clock, store, scanHistory, demoScans, shown, flags, dialog,
                   load, dels, clr, counts>>

(* login('demo@example.com', 'demo123'): the sign-in rejects and the catch
   sets the demo user *)
loginDemo ==
    /\ screen = "login"
    /\ user' = DemoUser
    /\ userToken' = DemoUser
    /\ screen' = "home"
    /\ UNCHANGED <<tzOffset, searchText, selectedFilter, scanner, runs, nScan,
                   clock, store, scanHistory, demoScans, shown, flags, dialog,
                   load, dels, clr, counts>>

NavStep ==
    \/ goBack
    \/ openHistory
    \/ logout
    \/ \E u \in Accounts : login(u)
    \/ loginDemo

----------------------------------------------------------------------------
(* QRScanner (shown by HomeScreen while showScanner is true) *)

(* the payloads of the codes in front of the camera *)
ScanTexts == {WiFiPrefix \o <<"T">>, TelPrefix \o <<"1">>}

InFlight(r) == runs[r].pc \in {"location", "save", "saveOk"}

(* no handleBarCodeScanned is between its start and its return *)
ScannerAtRest == \A r \in DOMAIN runs : ~InFlight(r)

(* the Scan QR Code button: setShowScanner(true) mounts QRScanner, whose
   mount effect asks for the camera permission *)
openScanner ==
    /\ screen = "home"
    /\ screen' = "scanner"
    /\ scanner' = NewScanner
    /\ UNCHANGED <<user, tzOffset, searchText, selectedFilter, userToken, runs,
                   nScan, clock, store, scanHistory, demoScans, shown, flags,
                   dialog, load, dels, clr, counts>>

(* Camera.requestCameraPermissionsAsync resolves:
   setHasPermission(status === 'granted') *)
getPermissions(granted) ==
    /\ screen = "scanner"
    /\ scanner.hasPermission = Null
    /\ scanner' = [scanner EXCEPT !.hasPermission = granted]
    /\ UNCHANGED <<user, tzOffset, searchText, selectedFilter, screen,
                   userToken, runs, nScan, clock, store, scanHistory, demoScans,
                   shown, flags, dialog, load, dels, clr, counts>>

(* the Close and Go Back buttons, and Done of the success alert: onClose,
   setShowScanner(false).  The scanner is left when no save is in flight *)
closeScanner ==
    /\ screen = "scanner"
    /\ ScannerAtRest
    /\ \/ scanner.alerts = <<>>
       \/ /\ scanner.alerts # <<>>
          /\ scanner.alerts[Len(scanner.alerts)] = "QR Code Scanned!"
    /\ screen' = "home"
    /\ scanner' = NewScanner
    /\ UNCHANGED <<user, tzOffset, searchText, selectedFilter, userToken, runs,
                   nScan, clock, store, scanHistory, demoScans, shown, flags,
                   dialog, load, dels, clr, counts>>

(* React commits the render that setScanned asked for: the Camera gets
   onBarCodeScanned={scanned ? undefined : handleBarCodeScanned} of the new
   render, whose handleBarCodeScanned holds the new value of scanned *)
Render ==
    /\ screen = "scanner"
    /\ scanner.shown # scanner.scanned
    /\ scanner' = [scanner EXCEPT !.shown = scanner.scanned]
    /\ UNCHANGED <<user, tzOffset, searchText, selectedFilter, screen,
                   userToken, runs, nScan, clock, store, scanHistory, demoScans,
                   shown, flags, dialog, load, dels, clr, counts>>

(* the camera delivers a barcode event to the onBarCodeScanned of the last
   committed render.  handleBarCodeScanned of that render returns at once if
   its scanned is true; else setScanned(true), setLoading(true) and
   getLocation is awaited *)
handleBarCodeScanned(data) ==
    /\ screen = "scanner"
    /\ scanner.hasPermission = "true"
    /\ ~scanner.shown
    /\ nScan < MaxScan
    /\ nScan' = nScan + 1
    /\ scanner' = [scanner EXCEPT !.scanned = TRUE, !.loading = TRUE]
    /\ runs' = [runs EXCEPT ![nScan + 1] =
           [pc |-> "location", data |-> data,
            uid |-> IF user = Null THEN DemoUser ELSE user, id |-> "none"]]
    /\ UNCHANGED <<user, tzOffset, searchText, selectedFilter, screen,
                   userToken, clock, store, scanHistory, demoScans, shown, flags,
                   dialog, load, dels, clr, counts>>

(* getLocation resolves, with the position or with null when the permission
   is denied or the position fails; saveScanToDatabase issues addDoc *)
IOLocation(r) ==
    /\ runs[r].pc = "location"
    /\ runs' = [runs EXCEPT ![r].pc = "save"]
    /\ UNCHANGED <<user, tzOffset, searchText, selectedFilter, screen,
                   userToken, scanner, nScan, clock, store, scanHistory,
                   demoScans, shown, flags, dialog, load, dels, clr, counts>>

(* addDoc(collection(db, 'scans'), scanData) with
   userId: user?.uid || 'demo-user' and the server's timestamp *)
IOAddDoc(r) ==
    /\ runs[r].pc = "save"
    /\ nextDoc' = nextDoc + 1
    /\ remote' = remote \cup {NewDoc(nextDoc + 1, runs[r].uid, runs[r].data, now)}
    /\ runs' = [runs EXCEPT ![r].pc = "saveOk", ![r].id = DocNames[nextDoc + 1]]
    /\ UNCHANGED <<user, tzOffset, searchText, selectedFilter, screen,
                   userToken, scanner, nScan, clock, scanHistory, demoScans,
                   shown, flags, dialog, load, dels, clr, counts>>

(* saved is true: Alert.alert('QR Code Scanned!', ...) with Scan Another and
   Done; finally setLoading(false) *)
ContAddDoc(r) ==
    /\ runs[r].pc = "saveOk"
    /\ runs' = [runs EXCEPT ![r].pc = "saved"]
    /\ scanner' = [scanner EXCEPT !.loading = FALSE,
                                  !.alerts = Append(@, "QR Code Scanned!")]
    /\ UNCHANGED <<user, tzOffset, searchText, selectedFilter, screen,
                   userToken, nScan, clock, store, scanHistory, demoScans, shown,
                   flags, dialog, load, dels, clr, counts>>

(* addDoc rejects: saveScanToDatabase returns false;
   Alert.alert('Error', 'Failed to save scan data'), setScanned(false);
   finally setLoading(false) *)
AddDocFails(r) ==
    /\ runs[r].pc = "save"
    /\ runs' = [runs EXCEPT ![r].pc = "failed"]
    /\ scanner' = [scanner EXCEPT !.scanned = FALSE, !.loading = FALSE,
                                  !.alerts = Append(@, "Failed to save scan data")]
    /\ UNCHANGED <<user, tzOffset, searchText, selectedFilter, screen,
                   userToken, nScan, clock, store, scanHistory, demoScans, shown,
                   flags, dialog, load, dels, clr, counts>>

(* Scan Another of the success alert: setScanned(false), setLoading(false);
   OK of the failure alert *)
DismissAlert ==
    /\ screen = "scanner"
    /\ scanner.alerts # <<>>
    /\ LET top == scanner.alerts[Len(scanner.alerts)]
           rest == SubSeq(scanner.alerts, 1, Len(scanner.alerts) - 1)
       IN  scanner' = IF top = "QR Code Scanned!"
                      THEN [scanner EXCEPT !.scanned = FALSE, !.loading = FALSE,
                                           !.alerts = rest]
                      ELSE [scanner EXCEPT !.alerts = rest]
    /\ UNCHANGED <<user, tzOffset, searchText, selectedFilter, screen,
                   userToken, runs, nScan, clock, store, scanHistory, demoScans,
                   shown, flags, dialog, load, dels, clr, counts>>

ScanStep ==
    \/ openScanner
    \/ \E g \in {"true", "false"} : getPermissions(g)
    \/ closeScanner
    \/ Render
    \/ \E data \in ScanTexts : handleBarCodeScanned(data)
    \/ \E r \in DOMAIN runs : IOLocation(r)
    \/ \E r \in DOMAIN runs : IOAddDoc(r)
    \/ \E r \in DOMAIN runs : ContAddDoc(r)
    \/ \E r \in DOMAIN runs : AddDocFails(r)
    \/ DismissAlert


(* scanning and looking at the history: the scanner, the history screen
   opened and left, and its loads; nobody signs out, nothing is refreshed,
   deleted or cleared *)
ScanNext ==
    \/ ScanStep
    \/ goBack
    \/ openHistory
    \/ LoadRun

ScanSpec == Init /\ [][ScanNext]_vars

(* users signing in and out on one device and opening the history screen:
   navigation, sign-in, and the loads and refreshes of the history screen *)
SessionNext ==
    \/ NavStep
    \/ LoadStep

SessionSpec == Init /\ [][SessionNext]_vars

----------------------------------------------------------------------------
(* The Filter/Search Engine on its own: the list, the clock and the time zone
   are drawn from small sets, and the filter buttons and the search box are
   used; the effect on [searchText, scans, selectedFilter] runs after each *)

Filters == {"all", "today", "week", "month"}
SearchTexts == {<<>>, <<"w", "i", "f", "i">>, <<"B">>}
QrTexts == {<<"W", "i", "F", "i">>, <<"a", "b">>}
TzOffsets == {0, 5}

(* timestamps around the cutoffs of the filters, and one of tomorrow *)
Timestamps ==
    {StartNow - 30 * 24 - 1, StartNow - 30 * 24, StartNow - 7 * 24 - 1,
     StartNow - 7 * 24, StartNow - 17, StartNow - 16, StartNow, StartNow + 30}

FilterRecords(i) ==
    {[id |-> DocNames[i], userId |-> "u1", qrData |-> q, timestamp |-> t] :
        q \in QrTexts, t \in Timestamps}

FilterLists ==
    UNION {{l \in [1 .. n -> UNION {FilterRecords(i) : i \in 1 .. n}] :
               \A i \in 1 .. n : l[i] \in FilterRecords(i)} : n \in 0 .. MaxLen}

FilterInit ==
    /\ user = "u1"
    /\ now = StartNow
    /\ remote = InitialRemote
    /\ nextDoc = Cardinality(InitialRemote)
    /\ scanHistory = Absent
    /\ demoScans = Absent
    /\ scans \in FilterLists
    /\ loading = FALSE
    /\ refreshing = FALSE
    /\ searchText = <<>>
    /\ selectedFilter = "all"
    /\ filteredScans = scans
    /\ tzOffset \in TzOffsets
    /\ dialog = [kind |-> "none"]
    /\ load = [StartedLoad(user, "none", FALSE) EXCEPT !.pc = "done"]
    /\ dels = [d \in 1 .. MaxDelete |-> IdleOp]
    /\ clr = IdleClear
    /\ nRefresh = 0
    /\ nDelete = 0
    /\ nClear = 0
    /\ nTick = 0
    /\ OnHistory

(* a filter button: onPress={() => setSelectedFilter(filter)} *)
setSelectedFilter(f) ==
    /\ screen = "history"
    /\ ~loading
    /\ selectedFilter' = f
    /\ filteredScans' = filterScans(scans, f, searchText, now, tzOffset)
    /\ UNCHANGED <<user, tzOffset, searchText, app, clock, store, scanHistory,
                   demoScans, scans, flags, dialog, load, dels, clr, counts>>

(* the search box: onChangeText={setSearchText} *)
setSearchText(t) ==
    /\ screen = "history"
    /\ ~loading
    /\ searchText' = t
    /\ filteredScans' = filterScans(scans, selectedFilter, t, now, tzOffset)
    /\ UNCHANGED <<user, tzOffset, selectedFilter, app, clock, store,
                   scanHistory, demoScans, scans, flags, dialog, load, dels, clr,
                   counts>>

FilterNext ==
    \/ \E f \in Filters : setSelectedFilter(f)
    \/ \E t \in SearchTexts : setSearchText(t)

FilterSpec == FilterInit /\ [][FilterNext]_vars

----------------------------------------------------------------------------
(* The QR-type classifier on its own: the list holds payloads drawn from a
   small set, and items are pressed: handleScanPress applies getQRType *)

ClassifyTexts ==
    { HttpPrefix \o <<"a">>,
      HttpsPrefix \o VcardWord,
      MailtoPrefix \o <<"a">>,
      MailtoPrefix \o TelPrefix,
      TelPrefix \o <<"1">>,
      WiFiPrefix \o ContactWord,
      ContactWord \o <<"a">>,
      <<"a">> \o VcardWord,
      <<"a">> \o HttpPrefix,
      <<"H", "T", "T", "P", ":", "/", "/">>,
      <<"h", "t", "t", "p", ":", "/">>,
      <<"w", "i", "f", "i", ":">>,
      <<"v", "c", "a", "r", "d">>,
      <<"a">>,
      <<>> }

ClassifyRecords(i) ==
    {[id |-> DocNames[i], userId |-> "u1", qrData |-> q,
      timestamp |-> StartNow - i] : q \in ClassifyTexts}

ClassifyLists ==
    UNION {{l \in [1 .. n -> UNION {ClassifyRecords(i) : i \in 1 .. n}] :
               \A i \in 1 .. n : l[i] \in ClassifyRecords(i)} : n \in 0 .. MaxLen}

ClassifyInit ==
    /\ user = "u1"
    /\ now = StartNow
    /\ remote = InitialRemote
    /\ nextDoc = Cardinality(InitialRemote)
    /\ scanHistory = Absent
    /\ demoScans = Absent
    /\ scans \in ClassifyLists
    /\ loading = FALSE
    /\ refreshing = FALSE
    /\ searchText = <<>>
    /\ selectedFilter = "all"
    /\ filteredScans = scans
    /\ tzOffset = 0
    /\ dialog = [kind |-> "none"]
    /\ load = [StartedLoad(user, "none", FALSE) EXCEPT !.pc = "done"]
    /\ dels = [d \in 1 .. MaxDelete |-> IdleOp]
    /\ clr = IdleClear
    /\ nRefresh = 0
    /\ nDelete = 0
    /\ nClear = 0
    /\ nTick = 0
    /\ OnHistory

ClassifyNext ==
    \/ \E i \in 1 .. MaxTap : handleScanPress(i)
    \/ CloseDialog

ClassifySpec == ClassifyInit /\ [][ClassifyNext]_vars

----------------------------------------------------------------------------
(* The screen loaded, refreshed and browsed with the filter buttons, the
   search box left empty and nothing being deleted or cleared *)

BrowseNext ==
    \/ Tick
    \/ AddDoc
    \/ LoadStep
    \/ \E f \in Filters : setSelectedFilter(f)

BrowseSpec == Init /\ [][BrowseNext]_vars

(* every promise of a store settles, resolved or rejected, and the event loop
   runs the continuation of a settled promise *)
LiveSpec == BrowseSpec /\ WF_vars(LoadRun)

----------------------------------------------------------------------------
(* Properties of the Scan Record Repository *)

Descending(l) == \A i \in 1 .. Len(l) - 1 : l[i].timestamp >= l[i + 1].timestamp
StrictlyDescending(l) ==
    \A i \in 1 .. Len(l) - 1 : l[i].timestamp > l[i + 1].timestamp
DistinctIds(l) == \A i, j \in DOMAIN l : l[i].id = l[j].id => i = j

Quiet == \A d \in DOMAIN dels : dels[d].pc \in {"idle", "done"}
LoadEnds == load.pc # "done" /\ load'.pc = "done"

(* C1: when the remote query of a load for a signed-in user has succeeded,
   the finished load leaves the list holding exactly the documents of the
   query, one per document id, newest first (no delete or clear-all is
   involved) *)
C1_LoadHoldsQueryResult ==
    (load.pc = "done" /\ load.queried /\ nDelete = 0 /\ nClear = 0)
        => /\ scans = load.res
           /\ Descending(scans)
           /\ DistinctIds(scans)
           /\ \A i \in DOMAIN scans : scans[i].userId = user

(* C2: when the remote query has failed and the scanHistory snapshot is
   absent or cannot be read, the finished load leaves the list empty and has
   shown the error notice *)
C2_FallbackEmptyWithError ==
    (load.pc = "done" /\ ~load.queried /\ load.path \in {"kept", "error"})
        => /\ scans = <<>>
           /\ load.alert = "Failed to load scan history"

SeedShaped(l) ==
    /\ Len(l) = 5
    /\ StrictlyDescending(l)
    /\ \A i \in DOMAIN l : l[i].id = DefaultDemoScans(0)[i].id

(* C3 as claimed: a load of the demo user, no delete or clear-all having been
   started, returns 5 seed records with strictly decreasing timestamps which
   are then the persisted demoScans, and every load after the first returns
   the list the load before it returned *)
C3_SeedOnce ==
    [][(IsDemo(user) /\ LoadEnds /\ nDelete = 0 /\ nClear = 0)
          => /\ SeedShaped(scans')
             /\ demoScans' = Stored(JSONStringify(scans'))
             /\ (nRefresh >= 1 => scans' = scans)]_vars

(* C3 as amended: a load of the demo user, no delete or clear-all having been
   started, returns 5 seed records with strictly decreasing timestamps; they
   are the persisted demoScans when the load has written them or read them;
   and a load that reads the entry returns the list the load before it
   returned, if that load had written or read the entry too *)
C3_SeedOnceWhenStored ==
    [][(IsDemo(user) /\ LoadEnds /\ nDelete = 0 /\ nClear = 0)
          => /\ SeedShaped(scans')
             /\ (load'.path \in {"demoSeed", "demoCache"}
                    => demoScans' = Stored(JSONStringify(scans')))
             /\ (load'.path = "demoCache" /\ load.prev \in {"demoSeed", "demoCache"}
                    => scans' = scans)]_vars

C3_Witness ==
    /\ IsDemo(user) /\ load.pc = "done" /\ nDelete = 0 /\ nClear = 0
    /\ load.path = "demoCache" /\ load.prev = "demoSeed"
    /\ SeedShaped(scans)
    /\ scans[1].timestamp < now - 24

(* C4: for the demo user, once a delete has reported success and every
   delete has returned, the deleted record is neither in the list nor in the
   persisted demoScans (no clear-all and no later load is involved) *)
C4_DeletedIsGone ==
    \A d \in DOMAIN dels :
        (/\ IsDemo(user) /\ Quiet /\ nClear = 0 /\ nRefresh = 0
         /\ load.pc = "done"
         /\ dels[d].pc = "done" /\ dels[d].alert = "Scan deleted successfully")
        => /\ dels[d].scan.id \notin Ids(scans)
           /\ demoScans.present
           /\ dels[d].scan.id \notin Ids(demoScans.items)

(* C5: the step in which a delete returns after its store operation failed
   leaves the list as it is, so that it still is the list the delete was
   invoked on, with the record in it, if nothing else has changed it since;
   the notice is the failure notice *)
C5_FailedDeleteKeepsList ==
    [][\A d \in DOMAIN dels :
          (dels[d].pc \in {"deleteDoc", "demoSet"} /\ dels'[d].pc = "done")
          => /\ scans' = scans
             /\ filteredScans' = filteredScans
             /\ (scans = dels[d].scans
                    => dels[d].scan.id \in Ids(scans') /\ scans' = dels[d].scans)
             /\ dels'[d].alert = "Failed to delete scan"]_vars

C5_Witness ==
    \E d \in DOMAIN dels :
        /\ dels[d].pc = "done" /\ dels[d].alert = "Failed to delete scan"
        /\ dels[d].scan.id \in Ids(scans)
        /\ nDelete = 1 /\ nClear = 0 /\ nRefresh = 0

(* C6: the steps of a confirmed clear-all: removeItem removes demoScans and
   nothing else; the resumption empties the list and reports success; a
   failed removeItem leaves the list and reports failure; none of them
   changes the Remote Store or the scanHistory backup *)
C6_ClearAllFrame ==
    [][/\ (clr.pc = "removeItem" /\ clr'.pc = "removed")
             => demoScans' = Absent /\ scans' = scans
       /\ (clr.pc = "removed" /\ clr'.pc = "done")
             => /\ scans' = <<>> /\ filteredScans' = <<>>
                /\ clr'.alert = "All scans cleared"
       /\ (clr.pc = "removeItem" /\ clr'.pc = "done")
             => /\ scans' = scans /\ demoScans' = demoScans
                /\ clr'.alert = "Failed to clear scans"
       /\ (clr.pc # clr'.pc /\ clr.pc # "idle" /\ clr.pc # "done")
             => remote' = remote /\ scanHistory' = scanHistory]_vars

C6_Witness ==
    /\ ~IsDemo(user)
    /\ clr.pc = "done" /\ clr.alert = "All scans cleared"
    /\ scans = <<>>
    /\ ~demoScans.present
    /\ scanHistory.present /\ Ids(scanHistory.items) = clr.had
    /\ \E x \in remote : x.userId = user /\ x.id \in clr.had

(* C7: a load started after clear-all reported success returns none of the
   records the clear-all removed from the list (no delete is involved) *)
C7_ClearedStayGone ==
    (load.pc = "done" /\ load.afterClear /\ nDelete = 0)
        => Ids(scans) \cap clr.had = {}

----------------------------------------------------------------------------
(* Properties of the Filter/Search Engine *)

(* the same letter, whatever the case *)
CasePairs == {<<"A", "a">>, <<"B", "b">>, <<"F", "f">>, <<"W", "w">>}
SameLetter(c, e) == c = e \/ <<c, e>> \in CasePairs \/ <<e, c>> \in CasePairs

InWindow(r) ==
    CASE selectedFilter = "all" -> TRUE
      [] selectedFilter = "week" -> r.timestamp >= now - 7 * 24
      [] selectedFilter = "month" -> r.timestamp >= now - 30 * 24

Matches(r) ==
    \/ searchText = <<>>
    \/ \E k \in 0 .. (Len(r.qrData) - Len(searchText)) :
           \A j \in 1 .. Len(searchText) : SameLetter(r.qrData[k + j], searchText[j])

Kept == {i \in DOMAIN scans : InWindow(scans[i]) /\ Matches(scans[i])}

(* the k-th index of a set of indices *)
Nth(S, k) == CHOOSE i \in S : Cardinality({j \in S : j <= i}) = k

(* C9: for the filters all, week and month the displayed list is exactly the
   records of the list that are in the time window and match the search text
   whatever the case, each once and in the order of the list *)
C9_FilterIsSubsequence ==
    selectedFilter \in {"all", "week", "month"}
        => /\ Len(filteredScans) = Cardinality(Kept)
           /\ \A k \in DOMAIN filteredScans : filteredScans[k] = scans[Nth(Kept, k)]

C9_Witness ==
    /\ selectedFilter = "week"
    /\ searchText = <<"w", "i", "f", "i">>
    /\ Len(scans) = 2
    /\ scans[1].qrData = <<"W", "i", "F", "i">>
    /\ scans[1].timestamp < now - 7 * 24
    /\ scans[2].qrData = <<"W", "i", "F", "i">>
    /\ scans[2].timestamp = now - 7 * 24
    /\ filteredScans = <<scans[2]>>

(* the local midnight of the current day: the hour of the last 24 at which
   the local time of day is 0 *)
TodayMidnight ==
    CHOOSE m \in (now - 23) .. now : (m + tzOffset) % 24 = 0

(* C10 as claimed: with the filter today and no search text every displayed
   record has its timestamp on the current local day *)
C10_TodayIsCalendarDay ==
    (selectedFilter = "today" /\ searchText = <<>>)
        => \A k \in DOMAIN filteredScans :
               /\ filteredScans[k].timestamp >= TodayMidnight
               /\ filteredScans[k].timestamp < TodayMidnight + 24

(* C10 as amended: with the filter today and no search text the displayed
   records are exactly the records at or after today's local midnight, those
   of tomorrow or later included *)
C10_TodayIsSinceMidnight ==
    (selectedFilter = "today" /\ searchText = <<>>)
        => /\ \A k \in DOMAIN filteredScans :
                  filteredScans[k].timestamp >= TodayMidnight
           /\ filteredScans =
                  SelectSeq(scans, LAMBDA r : r.timestamp >= TodayMidnight)

C10_Witness ==
    /\ selectedFilter = "today" /\ searchText = <<>>
    /\ Len(scans) = 2
    /\ scans[1].timestamp = StartNow + 30
    /\ scans[2].timestamp = TodayMidnight - 1
    /\ filteredScans = <<scans[1]>>

(* s begins with p, and s has w somewhere in it, character by character *)
Prefix(s, p) == Len(s) >= Len(p) /\ \A i \in 1 .. Len(p) : s[i] = p[i]
Contains(s, w) ==
    \E k \in 0 .. (Len(s) - Len(w)) : \A i \in 1 .. Len(w) : s[k + i] = w[i]

(* the first rule of the ordered rule list that a payload matches, 6 being
   the rule that matches everything *)
FirstRule(d) ==
    LET rules == << Prefix(d, HttpPrefix) \/ Prefix(d, HttpsPrefix),
                    Prefix(d, MailtoPrefix),
                    Prefix(d, TelPrefix),
                    Prefix(d, WiFiPrefix),
                    Contains(d, ContactWord) \/ Contains(d, VcardWord),
                    TRUE >>
    IN  CHOOSE r \in DOMAIN rules :
            rules[r] /\ \A q \in 1 .. r - 1 : ~rules[q]

RuleKinds == <<"url", "email", "phone", "wifi", "contact", "text">>

(* C13: the kind that handleScanPress got from getQRType for the pressed
   item is the kind of the first rule of the list url, email, phone, wifi,
   contact, text that the payload matches: it is one of the 6 kinds, and a
   payload matching several rules gets the kind of the earliest *)
C13_FirstMatchWins ==
    dialog.kind = "scan"
        => /\ dialog.qrType.type = RuleKinds[FirstRule(dialog.scan.qrData)]
           /\ Cardinality({k \in DOMAIN RuleKinds :
                               RuleKinds[k] = dialog.qrType.type}) = 1

C13_Witness ==
    /\ dialog.kind = "scan"
    /\ dialog.scan.qrData = HttpsPrefix \o VcardWord
    /\ dialog.qrType.type = "url"

(* C14: for a signed-in user, a finished load whose remote query succeeded
   leaves the list equal to the query result whether or not the mirror write
   succeeded, and when the mirror write succeeded the scanHistory backup
   holds the same records (no delete or clear-all is involved) *)
C14_MirrorFailureKeepsFresh ==
    (/\ ~IsDemo(user) /\ load.pc = "done" /\ load.queried
     /\ nDelete = 0 /\ nClear = 0)
        => /\ scans = load.res
           /\ (load.path = "remote"
                  => /\ scanHistory.present
                     /\ ParseScans(scanHistory.items) = load.res)

(* C15: once every delete has returned (no refresh is involved), the
   records of any two deletes that reported success are both out of the list
   and, for the demo user with no clear-all, out of the persisted demoScans;
   and after a clear-all that reported success the list is empty, whatever
   delete was in flight with it *)
C15_OverlappingDeletesCompose ==
    (Quiet /\ load.pc = "done" /\ nRefresh = 0)
        => /\ \A d, e \in DOMAIN dels :
                  (/\ d # e /\ nClear = 0
                   /\ dels[d].pc = "done" /\ dels[e].pc = "done"
                   /\ dels[d].alert = "Scan deleted successfully"
                   /\ dels[e].alert = "Scan deleted successfully"
                   /\ dels[d].scan.id # dels[e].scan.id)
                  => /\ dels[d].scan.id \notin Ids(scans)
                     /\ dels[e].scan.id \notin Ids(scans)
                     /\ IsDemo(user)
                            => /\ dels[d].scan.id \notin Ids(demoScans.items)
                               /\ dels[e].scan.id \notin Ids(demoScans.items)
           /\ (clr.pc = "done" /\ clr.alert = "All scans cleared")
                  => scans = <<>>

(* C16: whoever signed in, signed out and loaded before on the device, a
   finished load of the history screen of a signed-in user leaves only
   records of that user in the list, also when the list comes from the
   scanHistory backup *)
C16_ListIsOwn ==
    (screen = "history" /\ load.pc = "done" /\ ~IsDemo(user))
        => \A i \in DOMAIN scans : scans[i].userId = user

(* C17: in the scanner at most one handleBarCodeScanned is between its
   start and its return at any time (one location fetch plus addDoc in
   flight), so that one accepted barcode event gives one persisted record
   until Scan Another is chosen or the save fails; and a scanner whose saves
   have all returned, the last one failed, shows no loading indicator *)
C17_OneSaveInFlight ==
    /\ Cardinality({r \in DOMAIN runs : InFlight(r)}) <= 1
    /\ (/\ screen = "scanner" /\ ScannerAtRest /\ nScan >= 1
         /\ runs[nScan].pc = "failed")
            => ~scanner.loading

(* C18: a finished load of the history screen whose store operations all
   succeeded (the query and its mirror write, or the read of the saved demo
   scans) holds every scan of the user whose save reported success before
   the screen was opened, the user being signed in or the demo user (nothing
   is deleted or cleared) *)
C18_SavedScanIsLoaded ==
    (/\ screen = "history" /\ load.pc = "done"
     /\ load.path \in {"remote", "demoCache"}
     /\ nDelete = 0 /\ nClear = 0)
        => \A r \in DOMAIN runs :
               (runs[r].pc = "saved" /\ runs[r].uid = user)
                   => runs[r].id \in Ids(scans)

(* C12: a fetchScanHistory that has returned has set loading to false and
   its caller has resumed (refreshing is false), whatever the outcomes of
   its store operations were; and every fetchScanHistory in flight returns *)
C12_LoadCompletes ==
    /\ [](load.pc = "done" => ~loading /\ ~refreshing)
    /\ (load.pc # "done") ~> (load.pc = "done" /\ ~loading)

C12_Witness ==
    /\ load.pc = "done" /\ load.path = "error"
    /\ load.alert = "Failed to load scan history"
    /\ nRefresh >= 1
    /\ ~loading /\ ~refreshing

----------------------------------------------------------------------------
(* End to end: the seeds under the week filter *)

(* the list is the default demo data built at the present clock value *)
SeededNow ==
    /\ IsDemo(user) /\ load.pc = "done"
    /\ load.path \in {"demoSeed", "demoSeedUnsaved"}
    /\ scans = DefaultDemoScans(now)

(* C11 as claimed: with the 5 demo records just seeded, the week filter and
   no search text display exactly 3 records, the newest 3 in their order *)
C11_WeekKeepsThreeSeeds ==
    (SeededNow /\ selectedFilter = "week" /\ searchText = <<>>)
        => /\ Len(filteredScans) = 3
           /\ filteredScans = SubSeq(scans, 1, 3)

(* C11 as amended: with the 5 demo records just seeded, the week filter and
   no search text display all 5 records, newest first: the oldest seed is 5
   days old and none is older than 7 days *)
C11_WeekKeepsAllSeeds ==
    (SeededNow /\ selectedFilter = "week" /\ searchText = <<>>)
        => /\ Len(filteredScans) = 5
           /\ filteredScans = scans
           /\ StrictlyDescending(filteredScans)
           /\ \A k \in DOMAIN scans : scans[k].timestamp >= now - 5 * 24

C11_Witness ==
    /\ SeededNow /\ selectedFilter = "week" /\ searchText = <<>>
    /\ load.path = "demoSeed"
    /\ Len(filteredScans) = 5
    /\ filteredScans[5].id = "5"

====
